---- MODULE Spec2Model ----
(***************************************************************************)
(* CodeGuard review workflow: src/orchestration/graph.py run by            *)
(* src/api/webhook_handler.py process_pr, with the ticket client of        *)
(* src/tools/jira_client.py.                                               *)
(*                                                                         *)
(* One run of the compiled graph is modelled: the four reviewer tasks of   *)
(* the asyncio.gather fan-out interleave freely, every other node is one   *)
(* step.  A Python dict is a record; an Optional value is a sequence of    *)
(* length 0 (None / key absent) or 1.                                      *)
(*                                                                         *)
(* Spec        a run on a thread without a checkpoint                      *)
(* SpecRerun   a run on a thread whose checkpoint an earlier run of the    *)
(*             same (repo, PR number) has left in the MemorySaver          *)
(* SpecRouting supervisor_node and route_after_supervisor applied to a     *)
(*             RunState with an arbitrary severity_level                   *)
(* SpecFair    Spec with the fairness of the event loop, for termination   *)
(* SpecCancel  Spec with the cancellation of the task that runs the graph  *)
(* SpecComment _format_github_comment applied to the report of a run       *)
(* SpecReport  aggregator applied to findings of any severity text        *)
(***************************************************************************)
EXTENDS Integers, Sequences, FiniteSets, TLC

\* ---------------------------------------------------------------- bounds
\* findings returned by all four reviewers of one run, together
MaxIssues == 1

\* ------------------------------------------------------------- constants
\* scores are "1-10"; 0 is what .get(key, 0) yields for a missing key
MaxScore == 10
\* findings of the security list in a report handed to the formatter alone
MaxListed == 6
\* HIGH findings the comment lists at most
HighCap == 5
\* stands for "key missing from the reviewer's dict" (.get(key) is None)
NoScore == 0 - 1

\* the str-hash seeds a process may start with
HashSeeds == {0, 1}

None == <<>>
Some(x) == <<x>>
IsSome(o) == o # <<>>
TheVal(o) == o[1]

\* the order of the coroutines handed to asyncio.gather
Reviewers == <<"style", "security", "perf", "arch">>
ReviewerSet == {Reviewers[i] : i \in 1..Len(Reviewers)}

Severities == {"CRITICAL", "HIGH", "MEDIUM", "LOW"}

\* ------------------------------------------------- reviewer outcomes
\* A finding: its severity, its line (here its position in the reviewer's
\* list) and its message.
FindingSeqs(n) ==
  UNION {{[i \in 1..k |-> [severity |-> f[i], line |-> i,
                            message |-> "m" \o ToString(i)]] :
            f \in [1..k -> Severities]} : k \in 0..n}

\* Scores a reviewer may report.  The security score is the only one that is
\* ever compared, so it ranges over everything; the others are displayed only.
ScoresOf(r) ==
  IF r = "security" THEN {NoScore} \cup (0..MaxScore) ELSE {8}

\* Boolean keys of the reviewer's dict that are present and true.
FlagsOf(r) ==
  IF r = "security" THEN SUBSET {"has_critical", "approved"}
                    ELSE SUBSET {"approved"}

\* What reviewer r may return when at most n findings are left to report.
Outcomes(r, n) ==
  [issues : FindingSeqs(n), score : ScoresOf(r), flags : FlagsOf(r)]

\* ---------------------------------------------------------- dict access
\* result.get("issues", []) or []  on an Optional outcome
Issues(o) == IF IsSome(o) THEN TheVal(o).issues ELSE <<>>
\* result.get(score_key): None when the key is missing
RawScore(o) == IF IsSome(o) THEN TheVal(o).score ELSE NoScore
\* result.get(score_key, 0) or 0
ScoreOr0(o) == IF RawScore(o) = NoScore THEN 0 ELSE RawScore(o)
\* result.get(flag, False)
Flag(o, f) == IsSome(o) /\ f \in TheVal(o).flags
\* f"{value}" of a score
Fmt(v) == IF v = NoScore THEN "None" ELSE ToString(v)

\* --------------------------------------------------------- the payload
Payload == [repo_name |-> "org/repo", pr_number |-> 1,
            pr_title |-> "title", pr_author |-> "author"]

\* initial_state of process_pr; keys the dict does not carry (arch_review,
\* next_action, jira_tickets) are absent
InitialState(p) ==
  [repo_name       |-> p.repo_name,
   pr_number       |-> p.pr_number,
   pr_title        |-> p.pr_title,
   style_review    |-> None,
   security_review |-> None,
   perf_review     |-> None,
   arch_review     |-> None,
   severity_level  |-> "LOW",
   should_autofix  |-> FALSE,
   next_action     |-> None,
   final_report    |-> None,
   jira_tickets    |-> None,
   messages        |-> <<>>]

\* ainvoke(initial_state, config) on the thread of config: every key of the
\* input is written to its channel; messages is declared with operator.add,
\* so the input's list is added to what the thread holds; the channels the
\* input has no key for (arch_review, next_action, jira_tickets) keep the
\* value of the thread's checkpoint
ApplyInput(channels, input) ==
  [channels EXCEPT
     !.repo_name       = input.repo_name,
     !.pr_number       = input.pr_number,
     !.pr_title        = input.pr_title,
     !.style_review    = input.style_review,
     !.security_review = input.security_review,
     !.perf_review     = input.perf_review,
     !.severity_level  = input.severity_level,
     !.should_autofix  = input.should_autofix,
     !.final_report    = input.final_report,
     !.messages        = @ \o input.messages]

\* ------------------------------------------------------------ severity
\* variant: the HIGH threshold compared with > instead of >=
DeriveSeverity_StrictHigh(style_result, security_result, perf_result, arch_result) ==
  LET has_critical == Flag(security_result, "has_critical")
      risk_score   == ScoreOr0(security_result)
  IN  IF has_critical THEN "CRITICAL"
      ELSE IF risk_score > 7 THEN "HIGH"
      ELSE IF risk_score >= 4 THEN "MEDIUM"
      ELSE "LOW"

\* variant: a CRITICAL finding of any reviewer also makes the run CRITICAL
DeriveSeverity_AnyCritical(style_result, security_result, perf_result, arch_result) ==
  LET has_critical == Flag(security_result, "has_critical")
      risk_score   == ScoreOr0(security_result)
      all_issues   == Issues(style_result) \o Issues(security_result)
                        \o Issues(perf_result) \o Issues(arch_result)
  IN  IF has_critical
         \/ \E k \in 1..Len(all_issues) : all_issues[k].severity = "CRITICAL"
        THEN "CRITICAL"
      ELSE IF risk_score >= 7 THEN "HIGH"
      ELSE IF risk_score >= 4 THEN "MEDIUM"
      ELSE "LOW"

\* parallel_review_node, lines 26-36: all four results are in scope
DeriveSeverity(style_result, security_result, perf_result, arch_result) ==
  LET has_critical == Flag(security_result, "has_critical")
      risk_score   == ScoreOr0(security_result)
  IN  IF has_critical THEN "CRITICAL"
      ELSE IF risk_score >= 7 THEN "HIGH"
      ELSE IF risk_score >= 4 THEN "MEDIUM"
      ELSE "LOW"

\* the dict returned by parallel_review_node, merged into the state
\* variant: the security entry is written before the style entry
ParallelReviewUpdate_SecurityFirst(s, res) ==
  LET severity == DeriveSeverity(res["style"], res["security"],
                                 res["perf"], res["arch"])
  IN  [s EXCEPT
        !.style_review    = res["style"],
        !.security_review = res["security"],
        !.perf_review     = res["perf"],
        !.arch_review     = res["arch"],
        !.severity_level  = severity,
        !.should_autofix  = Flag(res["security"], "has_critical"),
        !.messages        = @ \o
          << "Security  : " \o Fmt(RawScore(res["security"])) \o "/10 risk",
             "Style     : " \o Fmt(RawScore(res["style"])) \o "/10",
             "Perf      : " \o Fmt(RawScore(res["perf"])) \o "/10",
             "Arch      : " \o Fmt(RawScore(res["arch"])) \o "/10",
             "Severity  : " \o severity >>]

ParallelReviewUpdate(s, res) ==
  LET severity == DeriveSeverity(res["style"], res["security"],
                                 res["perf"], res["arch"])
  IN  [s EXCEPT
        !.style_review    = res["style"],
        !.security_review = res["security"],
        !.perf_review     = res["perf"],
        !.arch_review     = res["arch"],
        !.severity_level  = severity,
        !.should_autofix  = Flag(res["security"], "has_critical"),
        !.messages        = @ \o
          << "Style     : " \o Fmt(RawScore(res["style"])) \o "/10",
             "Security  : " \o Fmt(RawScore(res["security"])) \o "/10 risk",
             "Perf      : " \o Fmt(RawScore(res["perf"])) \o "/10",
             "Arch      : " \o Fmt(RawScore(res["arch"])) \o "/10",
             "Severity  : " \o severity >>]

\* ---------------------------------------------------------- supervisor
NextActionOf(severity) ==
  IF severity = "CRITICAL" THEN "critical"
  ELSE IF severity = "HIGH" THEN "high"
  ELSE "normal"

\* variant: the node also starts the ticket list
SupervisorUpdate_InitsTickets(s) ==
  LET next_action == NextActionOf(s.severity_level)
  IN  [s EXCEPT !.next_action = Some(next_action),
                !.jira_tickets = Some(<<>>),
                !.messages = @ \o <<"Supervisor decision: " \o next_action>>]

\* variant: the node returns its entry as the whole log
SupervisorUpdate_OverwritesLog(s) ==
  LET next_action == NextActionOf(s.severity_level)
  IN  [s EXCEPT !.next_action = Some(next_action),
                !.messages = <<"Supervisor decision: " \o next_action>>]

SupervisorUpdate(s) ==
  LET next_action == NextActionOf(s.severity_level)
  IN  [s EXCEPT !.next_action = Some(next_action),
                !.messages = @ \o <<"Supervisor decision: " \o next_action>>]

\* variant: only "critical" is routed to the ticket node
route_after_supervisor_CriticalOnly(s) ==
  LET next_action == IF IsSome(s.next_action) THEN TheVal(s.next_action)
                                              ELSE "normal"
  IN  IF next_action \in {"critical"} THEN "jira_node"
      ELSE "aggregator"

route_after_supervisor(s) ==
  LET next_action == IF IsSome(s.next_action) THEN TheVal(s.next_action)
                                              ELSE "normal"
  IN  IF next_action \in {"critical", "high"} THEN "jira_node"
      ELSE "aggregator"

\* -------------------------------------------------------------- report
WithSeverity(seq, sev) == SelectSeq(seq, LAMBDA i : i.severity = sev)

\* variant: approved looks at the CRITICAL bucket only
build_report_CriticalOnly(s) ==
  LET style_issues    == Issues(s.style_review)
      security_issues == Issues(s.security_review)
      perf_issues     == Issues(s.perf_review)
      arch_issues     == Issues(s.arch_review)
      all_issues == style_issues \o security_issues \o perf_issues
                      \o arch_issues
      critical == WithSeverity(all_issues, "CRITICAL")
      high     == WithSeverity(all_issues, "HIGH")
      medium   == WithSeverity(all_issues, "MEDIUM")
      low      == WithSeverity(all_issues, "LOW")
  IN  [repo      |-> s.repo_name,
       pr_number |-> s.pr_number,
       pr_title  |-> s.pr_title,
       severity  |-> s.severity_level,
       approved  |-> (Len(critical) = 0),
       summary   |-> [total_issues   |-> Len(all_issues),
                      critical       |-> Len(critical),
                      high           |-> Len(high),
                      medium         |-> Len(medium),
                      low            |-> Len(low),
                      style_score    |-> ScoreOr0(s.style_review),
                      security_score |-> ScoreOr0(s.security_review),
                      perf_score     |-> ScoreOr0(s.perf_review),
                      arch_score     |-> ScoreOr0(s.arch_review)],
       style_issues    |-> style_issues,
       security_issues |-> security_issues,
       perf_issues     |-> perf_issues,
       arch_issues     |-> arch_issues]

\* variant: the report's severity is the worst severity among the findings
\* (LOW when there are none) instead of the run's severity_level
build_report_WorstFinding(s) ==
  LET style_issues    == Issues(s.style_review)
      security_issues == Issues(s.security_review)
      perf_issues     == Issues(s.perf_review)
      arch_issues     == Issues(s.arch_review)
      all_issues == style_issues \o security_issues \o perf_issues
                      \o arch_issues
      critical == WithSeverity(all_issues, "CRITICAL")
      high     == WithSeverity(all_issues, "HIGH")
      medium   == WithSeverity(all_issues, "MEDIUM")
      low      == WithSeverity(all_issues, "LOW")
  IN  [repo      |-> s.repo_name,
       pr_number |-> s.pr_number,
       pr_title  |-> s.pr_title,
       severity  |-> IF Len(critical) > 0 THEN "CRITICAL"
                     ELSE IF Len(high) > 0 THEN "HIGH"
                     ELSE IF Len(medium) > 0 THEN "MEDIUM"
                     ELSE "LOW",
       approved  |-> (Len(critical) = 0 /\ Len(high) = 0),
       summary   |-> [total_issues   |-> Len(all_issues),
                      critical       |-> Len(critical),
                      high           |-> Len(high),
                      medium         |-> Len(medium),
                      low            |-> Len(low),
                      style_score    |-> ScoreOr0(s.style_review),
                      security_score |-> ScoreOr0(s.security_review),
                      perf_score     |-> ScoreOr0(s.perf_review),
                      arch_score     |-> ScoreOr0(s.arch_review)],
       style_issues    |-> style_issues,
       security_issues |-> security_issues,
       perf_issues     |-> perf_issues,
       arch_issues     |-> arch_issues]

\* variant: approved is read off the run's severity_level
build_report_ApprovedFromSeverity(s) ==
  LET style_issues    == Issues(s.style_review)
      security_issues == Issues(s.security_review)
      perf_issues     == Issues(s.perf_review)
      arch_issues     == Issues(s.arch_review)
      all_issues == style_issues \o security_issues \o perf_issues
                      \o arch_issues
      critical == WithSeverity(all_issues, "CRITICAL")
      high     == WithSeverity(all_issues, "HIGH")
      medium   == WithSeverity(all_issues, "MEDIUM")
      low      == WithSeverity(all_issues, "LOW")
  IN  [repo      |-> s.repo_name,
       pr_number |-> s.pr_number,
       pr_title  |-> s.pr_title,
       severity  |-> s.severity_level,
       approved  |-> (s.severity_level \notin {"CRITICAL", "HIGH"}),
       summary   |-> [total_issues   |-> Len(all_issues),
                      critical       |-> Len(critical),
                      high           |-> Len(high),
                      medium         |-> Len(medium),
                      low            |-> Len(low),
                      style_score    |-> ScoreOr0(s.style_review),
                      security_score |-> ScoreOr0(s.security_review),
                      perf_score     |-> ScoreOr0(s.perf_review),
                      arch_score     |-> ScoreOr0(s.arch_review)],
       style_issues    |-> style_issues,
       security_issues |-> security_issues,
       perf_issues     |-> perf_issues,
       arch_issues     |-> arch_issues]

\* variant: the architecture findings are left out of the concatenation
build_report_DropsArch(s) ==
  LET style_issues    == Issues(s.style_review)
      security_issues == Issues(s.security_review)
      perf_issues     == Issues(s.perf_review)
      arch_issues     == Issues(s.arch_review)
      all_issues == style_issues \o security_issues \o perf_issues
      critical == WithSeverity(all_issues, "CRITICAL")
      high     == WithSeverity(all_issues, "HIGH")
      medium   == WithSeverity(all_issues, "MEDIUM")
      low      == WithSeverity(all_issues, "LOW")
  IN  [repo      |-> s.repo_name,
       pr_number |-> s.pr_number,
       pr_title  |-> s.pr_title,
       severity  |-> s.severity_level,
       approved  |-> (Len(critical) = 0 /\ Len(high) = 0),
       summary   |-> [total_issues   |-> Len(all_issues),
                      critical       |-> Len(critical),
                      high           |-> Len(high),
                      medium         |-> Len(medium),
                      low            |-> Len(low),
                      style_score    |-> ScoreOr0(s.style_review),
                      security_score |-> ScoreOr0(s.security_review),
                      perf_score     |-> ScoreOr0(s.perf_review),
                      arch_score     |-> ScoreOr0(s.arch_review)],
       style_issues    |-> style_issues,
       security_issues |-> security_issues,
       perf_issues     |-> perf_issues,
       arch_issues     |-> arch_issues]

build_report(s) ==
  LET style_issues    == Issues(s.style_review)
      security_issues == Issues(s.security_review)
      perf_issues     == Issues(s.perf_review)
      arch_issues     == Issues(s.arch_review)
      all_issues == style_issues \o security_issues \o perf_issues
                      \o arch_issues
      critical == WithSeverity(all_issues, "CRITICAL")
      high     == WithSeverity(all_issues, "HIGH")
      medium   == WithSeverity(all_issues, "MEDIUM")
      low      == WithSeverity(all_issues, "LOW")
  IN  [repo      |-> s.repo_name,
       pr_number |-> s.pr_number,
       pr_title  |-> s.pr_title,
       severity  |-> s.severity_level,
       approved  |-> (Len(critical) = 0 /\ Len(high) = 0),
       summary   |-> [total_issues   |-> Len(all_issues),
                      critical       |-> Len(critical),
                      high           |-> Len(high),
                      medium         |-> Len(medium),
                      low            |-> Len(low),
                      style_score    |-> ScoreOr0(s.style_review),
                      security_score |-> ScoreOr0(s.security_review),
                      perf_score     |-> ScoreOr0(s.perf_review),
                      arch_score     |-> ScoreOr0(s.arch_review)],
       style_issues    |-> style_issues,
       security_issues |-> security_issues,
       perf_issues     |-> perf_issues,
       arch_issues     |-> arch_issues]

\* variant: the node also rewrites severity_level from the report's buckets
AggregatorUpdate_RewritesSeverity(s) ==
  LET report == build_report(s)
  IN  [s EXCEPT !.final_report = Some(report),
                !.severity_level = IF report.summary.critical > 0
                                     THEN "CRITICAL" ELSE @,
                !.messages = @ \o
                  <<"Final: " \o ToString(report.summary.total_issues)
                      \o " issues">>]

\* variant: the node returns its message but not the report
AggregatorUpdate_NoReport(s) ==
  LET report == build_report(s)
  IN  [s EXCEPT !.messages = @ \o
                  <<"Final: " \o ToString(report.summary.total_issues)
                      \o " issues">>]

\* variant: the node hands the architecture slot back empty
AggregatorUpdate_ClearsArch(s) ==
  LET report == build_report(s)
  IN  [s EXCEPT !.final_report = Some(report),
                !.arch_review = None,
                !.messages = @ \o
                  <<"Final: " \o ToString(report.summary.total_issues)
                      \o " issues">>]

AggregatorUpdate(s) ==
  LET report == build_report(s)
  IN  [s EXCEPT !.final_report = Some(report),
                !.messages = @ \o
                  <<"Final: " \o ToString(report.summary.total_issues)
                      \o " issues">>]

\* ------------------------------------------------------------- tickets
\* hash(summary): Python salts str hashes with a seed drawn once per process,
\* so the value is a function of the seed and the text only
SeverityCode(sev) ==
  CASE sev = "CRITICAL" -> 4 [] sev = "HIGH" -> 3
    [] sev = "MEDIUM" -> 2 [] OTHER -> 1
PyHash(seed, summary) ==
  (seed + 1) * (131 * SeverityCode(summary[1]) + 17 * Len(summary[2]) + 7)

\* JiraClient.create_ticket with the client not enabled: a simulated record
create_ticket(seed, summary, priority, labels) ==
  LET ticket_id == "CG-" \o ToString(PyHash(seed, summary) % 1000)
  IN  [key    |-> ticket_id,
       url    |-> "https://jira.example.com/browse/" \o ticket_id,
       status |-> "simulated"]

\* severity.lower()
Lower(severity) ==
  CASE severity = "CRITICAL" -> "critical" [] severity = "HIGH" -> "high"
    [] severity = "MEDIUM" -> "medium" [] severity = "LOW" -> "low"

\* variant: every request gets priority High
TicketRequest_AlwaysHigh(issue) ==
  LET severity == issue.severity
  IN  [summary    |-> <<severity, issue.message>>,
       issue_type |-> IF severity = "CRITICAL" THEN "Bug" ELSE "Task",
       priority   |-> "High",
       labels     |-> <<"codeguard", Lower(severity), "pr-review">>]

\* the arguments of create_ticket the loop builds for one finding; the
\* summary is kept as the pair of its severity and its message
TicketRequest(issue) ==
  LET severity == issue.severity
  IN  [summary    |-> <<severity, issue.message>>,
       issue_type |-> IF severity = "CRITICAL" THEN "Bug" ELSE "Task",
       priority   |-> IF severity = "CRITICAL" THEN "Highest" ELSE "High",
       labels     |-> <<"codeguard", Lower(severity), "pr-review">>]

\* variant: only CRITICAL findings are ticketed
create_tickets_from_review_CriticalOnly(seed, final_report) ==
  LET all_issues == final_report.security_issues \o final_report.perf_issues
                      \o final_report.style_issues \o final_report.arch_issues
      high_plus  == SelectSeq(all_issues,
                      LAMBDA i : i.severity \in {"CRITICAL"})
  IN  [k \in 1..Len(high_plus) |->
         LET request == TicketRequest(high_plus[k])
         IN  create_ticket(seed, request.summary, request.priority,
                           request.labels)]

create_tickets_from_review(seed, final_report) ==
  LET all_issues == final_report.security_issues \o final_report.perf_issues
                      \o final_report.style_issues \o final_report.arch_issues
      high_plus  == SelectSeq(all_issues,
                      LAMBDA i : i.severity \in {"HIGH", "CRITICAL"})
  IN  [k \in 1..Len(high_plus) |->
         LET request == TicketRequest(high_plus[k])
         IN  create_ticket(seed, request.summary, request.priority,
                           request.labels)]

\* the report jira_node hands on: the stored one, else one built on the spot
JiraReport(s) ==
  IF IsSome(s.final_report) THEN TheVal(s.final_report) ELSE build_report(s)

\* variant: the node lowers severity_level once the tickets are filed
JiraUpdate_ResetsSeverity(s, seed) ==
  LET final_report == IF IsSome(s.final_report) THEN TheVal(s.final_report)
                                                ELSE build_report(s)
      tickets      == create_tickets_from_review(seed, final_report)
  IN  [s EXCEPT !.jira_tickets = Some(tickets),
                !.severity_level = "LOW",
                !.messages = @ \o
                  <<"Created " \o ToString(Len(tickets)) \o " JIRA tickets">>]

\* variant: the node reports the tickets in its message but does not return
\* the list
JiraUpdate_StoresNothing(s, seed) ==
  LET final_report == IF IsSome(s.final_report) THEN TheVal(s.final_report)
                                                ELSE build_report(s)
      tickets      == create_tickets_from_review(seed, final_report)
  IN  [s EXCEPT !.messages = @ \o
                  <<"Created " \o ToString(Len(tickets)) \o " JIRA tickets">>]

JiraUpdate(s, seed) ==
  LET final_report == IF IsSome(s.final_report) THEN TheVal(s.final_report)
                                                ELSE build_report(s)
      tickets      == create_tickets_from_review(seed, final_report)
  IN  [s EXCEPT !.jira_tickets = Some(tickets),
                !.messages = @ \o
                  <<"Created " \o ToString(Len(tickets)) \o " JIRA tickets">>]

\* --------------------------------------------------------------- graph
\* variant: the ticket node is wired straight to post_comment
Edge_JiraToPost(n) ==
  CASE n = "parallel_review" -> "supervisor"
    [] n = "jira_node"       -> "post_comment"
    [] n = "aggregator"      -> "post_comment"
    [] n = "post_comment"    -> "END"

\* the unconditional edges added by build_graph
Edge(n) ==
  CASE n = "parallel_review" -> "supervisor"
    [] n = "jira_node"       -> "aggregator"
    [] n = "aggregator"      -> "post_comment"
    [] n = "post_comment"    -> "END"

\* variant: the wait returns on the first completed awaitable
GatherDone_FirstCompleted(t) == \E r \in ReviewerSet : t[r] = "done"

\* asyncio.gather returns once every awaitable has returned
GatherDone(t) == \A r \in ReviewerSet : t[r] = "done"

\* ---------------------------------------------------------------- state
VARIABLES
  jira_enabled,  \* JiraClient.enabled: all three JIRA_* settings are set
  hash_seed,     \* the process's str-hash seed
  pc,            \* "idle", the node to run next, "END" or "error"
  state,         \* the RunState of the run
  task,          \* reviewer -> "idle" | "running" | "done" | "failed"
  result,        \* reviewer -> Optional outcome held by the gather
  started,       \* nodes whose function has been entered, in order
  completed,     \* nodes whose update has been merged, in order
  raised,        \* the node whose exception ended the run, or "none"
  published,     \* number of calls of post_pr_comment in the run
  comment,       \* the text _format_github_comment has returned, if any
  handed         \* the report jira_node has passed to create_tickets_from_review

vars == <<jira_enabled, hash_seed, pc, state, task, result, started, completed, raised, published, comment, handed>>

Init ==
  /\ jira_enabled \in BOOLEAN
  /\ hash_seed \in HashSeeds
  /\ pc = "idle"
  /\ state = InitialState(Payload)
  /\ task = [r \in ReviewerSet |-> "idle"]
  /\ result = [r \in ReviewerSet |-> None]
  /\ started = <<>>
  /\ completed = <<>>
  /\ raised = "none"
  /\ published = 0
  /\ comment = None
  /\ handed = None

IssuesHeld == Len(Issues(result["style"])) + Len(Issues(result["security"]))
                + Len(Issues(result["perf"])) + Len(Issues(result["arch"]))

\* process_pr builds the initial state and invokes the graph; the entry node
\* parallel_review_node starts its four review coroutines
Invoke ==
  /\ pc = "idle"
  /\ pc' = "parallel_review"
  /\ state' = ApplyInput(state, InitialState(Payload))
  /\ task' = [r \in ReviewerSet |-> "running"]
  /\ started' = Append(started, "parallel_review")
  /\ UNCHANGED <<jira_enabled, hash_seed, published, comment, handed, result, completed, raised>>

\* a review coroutine returns its dict.  After the gather has raised nobody
\* holds the return value any more.
ReviewReturn(r) ==
  /\ task[r] = "running"
  /\ task' = [task EXCEPT ![r] = "done"]
  /\ IF pc = "parallel_review"
       THEN \E o \in Outcomes(r, MaxIssues - IssuesHeld) :
              result' = [result EXCEPT ![r] = Some(o)]
       ELSE UNCHANGED result
  /\ UNCHANGED <<jira_enabled, hash_seed, published, comment, handed, pc, state, started, completed, raised>>

\* a review coroutine raises.  gather (return_exceptions not set) hands the
\* first exception to the awaiting node at once and leaves the other
\* coroutines running; the node has no handler, so the exception leaves
\* ainvoke and process_pr's except clause ends the run.
ReviewRaise(r) ==
  /\ task[r] = "running"
  /\ task' = [task EXCEPT ![r] = "failed"]
  /\ IF pc = "parallel_review"
       THEN /\ pc' = "error"
            /\ raised' = "parallel_review"
            /\ result' = [q \in ReviewerSet |-> None]
       ELSE UNCHANGED <<pc, raised, result>>
  /\ UNCHANGED <<jira_enabled, hash_seed, published, comment, handed, state, started, completed>>

\* the gather returns, the node computes the severity and returns its update
FanIn ==
  /\ pc = "parallel_review"
  /\ GatherDone(task)
  /\ state' = ParallelReviewUpdate(state, result)
  /\ completed' = Append(completed, "parallel_review")
  /\ pc' = Edge("parallel_review")
  /\ UNCHANGED <<jira_enabled, hash_seed, published, comment, handed, task, result, started, raised>>

Supervisor ==
  /\ pc = "supervisor"
  /\ state' = SupervisorUpdate(state)
  /\ started' = Append(started, "supervisor")
  /\ completed' = Append(completed, "supervisor")
  /\ pc' = route_after_supervisor(state')
  /\ UNCHANGED <<jira_enabled, hash_seed, published, comment, handed, task, result, raised>>

\* jira_node: JiraClient() raises when the client is enabled (its __init__
\* imports the name JIRA from its own module, which does not define it);
\* nothing in the node or the graph catches it
\* variant: the node's exception is noted and the run goes on to the next
\* node of the path
JiraNode_Continues ==
  /\ pc = "jira_node"
  /\ started' = Append(started, "jira_node")
  /\ IF jira_enabled
       THEN /\ pc' = Edge("jira_node")
            /\ raised' = "jira_node"
            /\ UNCHANGED <<state, completed, handed>>
       ELSE /\ state' = JiraUpdate(state, hash_seed)
            /\ completed' = Append(completed, "jira_node")
            /\ pc' = Edge("jira_node")
            /\ handed' = Some(JiraReport(state))
            /\ UNCHANGED raised
  /\ UNCHANGED <<jira_enabled, hash_seed, published, comment, task, result>>

JiraNode ==
  /\ pc = "jira_node"
  /\ started' = Append(started, "jira_node")
  /\ IF jira_enabled
       THEN /\ pc' = "error"
            /\ raised' = "jira_node"
            /\ UNCHANGED <<state, completed, handed>>
       ELSE /\ state' = JiraUpdate(state, hash_seed)
            /\ completed' = Append(completed, "jira_node")
            /\ pc' = Edge("jira_node")
            /\ handed' = Some(JiraReport(state))
            /\ UNCHANGED raised
  /\ UNCHANGED <<jira_enabled, hash_seed, published, comment, task, result>>

Aggregator ==
  /\ pc = "aggregator"
  /\ state' = AggregatorUpdate(state)
  /\ started' = Append(started, "aggregator")
  /\ completed' = Append(completed, "aggregator")
  /\ pc' = Edge("aggregator")
  /\ UNCHANGED <<jira_enabled, hash_seed, published, comment, handed, task, result, raised>>

\* post_comment_node: its first statement imports post_pr_comment from
\* api.github_client, which defines no such name, so the node raises before
\* it formats or publishes anything
\* variant: the node waits for a publication that never answers
PostComment_Hangs ==
  /\ pc = "post_comment"
  /\ UNCHANGED vars

PostComment ==
  /\ pc = "post_comment"
  /\ started' = Append(started, "post_comment")
  /\ pc' = "error"
  /\ raised' = "post_comment"
  /\ UNCHANGED <<jira_enabled, hash_seed, published, comment, handed, state, task, result, completed>>

Next ==
  \/ Invoke
  \/ \E r \in ReviewerSet : ReviewReturn(r)
  \/ \E r \in ReviewerSet : ReviewRaise(r)
  \/ FanIn
  \/ Supervisor
  \/ JiraNode
  \/ Aggregator
  \/ PostComment

Spec == Init /\ [][Next]_vars

\* The event loop runs a coroutine that is ready, and every external call
\* is taken to return or raise in the end: as long as the run or one of its
\* reviewer calls can take a step, a step is taken.
Fairness == WF_vars(Next)

\* the hash seed has no part in which steps a run takes: one seed is enough
InitFair == Init /\ hash_seed = 0

SpecFair == InitFair /\ [][Next]_vars /\ Fairness

\* what process_pr returns: the final state of ainvoke, or nothing when the
\* except clause has swallowed an exception
ProcessPrReturn == IF pc = "END" THEN Some(state) ELSE None

\* ----------------------------------------------- a thread with a checkpoint
\* thread_id is "pr-{repo_name}-{pr_number}": a second event for the same
\* pull request runs on the thread of the first.  What the reviewers of the
\* earlier run returned:
PriorClean ==
  [r \in ReviewerSet |->
     Some([issues |-> <<>>, score |-> IF r = "security" THEN 2 ELSE 8,
           flags |-> {"approved"}])]
PriorCritical ==
  [PriorClean EXCEPT !["security"] =
     Some([issues |-> <<[severity |-> "CRITICAL", line |-> 1,
                         message |-> "m1"]>>,
           score |-> 9, flags |-> {"has_critical"}])]
PriorResults == {PriorClean, PriorCritical}

\* the checkpoint the earlier run left: the state after its last completed
\* node (it ended in jira_node when the client is enabled, else in
\* post_comment)
PriorCheckpoint(res, enabled, seed) ==
  LET s1 == SupervisorUpdate(ParallelReviewUpdate(InitialState(Payload), res))
  IN  IF route_after_supervisor(s1) = "jira_node"
        THEN IF enabled THEN s1 ELSE AggregatorUpdate(JiraUpdate(s1, seed))
        ELSE AggregatorUpdate(s1)

InitRerun ==
  /\ jira_enabled \in BOOLEAN
  /\ hash_seed \in HashSeeds
  /\ \E res \in PriorResults :
       state = PriorCheckpoint(res, jira_enabled, hash_seed)
  /\ pc = "idle"
  /\ task = [r \in ReviewerSet |-> "idle"]
  /\ result = [r \in ReviewerSet |-> None]
  /\ started = <<>>
  /\ completed = <<>>
  /\ raised = "none"
  /\ published = 0
  /\ comment = None
  /\ handed = None

SpecRerun == InitRerun /\ [][Next]_vars

\* ------------------------------------------- the routing functions alone
\* severity values handed to supervisor_node: the four levels and one that
\* is none of them
SeverityInputs == Severities \cup {"BLOCKER"}

\* a RunState as parallel_review leaves it, with any severity_level
InitRouting ==
  /\ jira_enabled \in BOOLEAN
  /\ hash_seed \in HashSeeds
  /\ \E sec \in Outcomes("security", MaxIssues), sev \in SeverityInputs :
       /\ result = [PriorClean EXCEPT !["security"] = Some(sec)]
       /\ state = [ParallelReviewUpdate(InitialState(Payload), result)
                     EXCEPT !.severity_level = sev]
  /\ pc = "supervisor"
  /\ task = [r \in ReviewerSet |-> "done"]
  /\ started = <<"parallel_review">>
  /\ completed = <<"parallel_review">>
  /\ raised = "none"
  /\ published = 0
  /\ comment = None
  /\ handed = None

NextRouting ==
  \/ Supervisor
  \/ JiraNode
  \/ Aggregator
  \/ PostComment

SpecRouting == InitRouting /\ [][NextRouting]_vars

\* ------------------------------------------------------------- helpers
Range(seq) == {seq[i] : i \in 1..Len(seq)}
IsPrefix(a, b) == Len(a) <= Len(b) /\ SubSeq(b, 1, Len(a)) = a
NoRepeat(seq) == \A i, j \in 1..Len(seq) : seq[i] = seq[j] => i = j

Review(s, r) ==
  CASE r = "style"    -> s.style_review
    [] r = "security" -> s.security_review
    [] r = "perf"     -> s.perf_review
    [] r = "arch"     -> s.arch_review

EscalatePath ==
  <<"parallel_review", "supervisor", "jira_node", "aggregator", "post_comment">>
SkipPath ==
  <<"parallel_review", "supervisor", "aggregator", "post_comment">>

Escalating == state.severity_level \in {"CRITICAL", "HIGH"}
FanInDone == "parallel_review" \in Range(completed)
SupervisorDone == "supervisor" \in Range(completed)
HasReport == IsSome(state.final_report)
Report == TheVal(state.final_report)
NoFindings == \A r \in ReviewerSet : Issues(Review(state, r)) = <<>>

\* ------------------------------------------------------- cancellation
\* the task that runs process_pr is cancelled while parallel_review awaits
\* its gather: the gather cancels the reviewer calls that have not finished,
\* and the CancelledError, which is not an Exception, leaves process_pr
\* without reaching its except clause
Cancel ==
  /\ pc = "parallel_review"
  /\ \E r \in ReviewerSet : task[r] = "running"
  /\ task' = [r \in ReviewerSet |->
                IF task[r] = "running" THEN "cancelled" ELSE task[r]]
  /\ result' = [r \in ReviewerSet |-> None]
  /\ pc' = "cancelled"
  /\ UNCHANGED <<jira_enabled, hash_seed, published, comment, handed, state, started, completed, raised>>

NextCancel ==
  \/ Next
  \/ Cancel

SpecCancel == Init /\ [][NextCancel]_vars

\* ------------------------------------------------------- the comment
\* variant: the HIGH block lists every HIGH finding
format_github_comment_NoCap(s, report) ==
  LET listing == report.security_issues \o report.perf_issues
                   \o report.style_issues \o report.arch_issues
      critical_issues == WithSeverity(listing, "CRITICAL")
      high_issues     == WithSeverity(listing, "HIGH")
      Item(kind, issue) == [kind |-> kind, line |-> issue.line,
                            text |-> issue.message]
  IN  << [kind |-> "title", line |-> 0, text |-> "CodeGuard Automated Review"],
         [kind |-> "verdict", line |-> 0,
          text |-> (IF report.approved THEN "APPROVED"
                                       ELSE "CHANGES REQUESTED")
                     \o " Severity: " \o report.severity],
         [kind |-> "summary", line |-> 0,
          text |-> "Total: " \o ToString(report.summary.total_issues)] >>
      \o (IF critical_issues # <<>>
            THEN <<[kind |-> "critical_title", line |-> 0,
                    text |-> "Critical Issues (Must Fix)"]>>
                 \o [k \in 1..Len(critical_issues) |->
                       Item("critical_item", critical_issues[k])]
            ELSE <<>>)
      \o (IF high_issues # <<>>
            THEN <<[kind |-> "high_title", line |-> 0,
                    text |-> "High Issues (Should Fix)"]>>
                 \o [k \in 1..Len(high_issues) |->
                       Item("high_item", high_issues[k])]
            ELSE <<>>)
      \o <<[kind |-> "attribution", line |-> 0,
            text |-> "Reviewed by CodeGuard"]>>

\* _format_github_comment: the comment as the sequence of its parts (the
\* heading, the verdict line, the summary, the two optional blocks with one
\* item per listed finding, the attribution line)
format_github_comment(s, report) ==
  LET listing == report.security_issues \o report.perf_issues
                   \o report.style_issues \o report.arch_issues
      critical_issues == WithSeverity(listing, "CRITICAL")
      high_issues     == WithSeverity(listing, "HIGH")
      Item(kind, issue) == [kind |-> kind, line |-> issue.line,
                            text |-> issue.message]
  IN  << [kind |-> "title", line |-> 0, text |-> "CodeGuard Automated Review"],
         [kind |-> "verdict", line |-> 0,
          text |-> (IF report.approved THEN "APPROVED"
                                       ELSE "CHANGES REQUESTED")
                     \o " Severity: " \o report.severity],
         [kind |-> "summary", line |-> 0,
          text |-> "Total: " \o ToString(report.summary.total_issues)] >>
      \o (IF critical_issues # <<>>
            THEN <<[kind |-> "critical_title", line |-> 0,
                    text |-> "Critical Issues (Must Fix)"]>>
                 \o [k \in 1..Len(critical_issues) |->
                       Item("critical_item", critical_issues[k])]
            ELSE <<>>)
      \o (IF high_issues # <<>>
            THEN <<[kind |-> "high_title", line |-> 0,
                    text |-> "High Issues (Should Fix)"]>>
                 \o [k \in 1..(IF Len(high_issues) < HighCap
                                 THEN Len(high_issues) ELSE HighCap) |->
                       Item("high_item", high_issues[k])]
            ELSE <<>>)
      \o <<[kind |-> "attribution", line |-> 0,
            text |-> "Reviewed by CodeGuard"]>>

\* the formatter applied to the report of a run whose security list holds up
\* to MaxListed findings and whose performance list holds up to one
InitComment ==
  /\ jira_enabled = FALSE
  /\ hash_seed = 0
  /\ \E sec \in FindingSeqs(MaxListed), perf \in FindingSeqs(1),
        sc \in {2, 8} :
       /\ result = [PriorClean EXCEPT
                      !["security"] = Some([issues |-> sec, score |-> sc,
                                            flags |-> {}]),
                      !["perf"] = Some([issues |-> perf, score |-> 8,
                                        flags |-> {}])]
       /\ state = PriorCheckpoint(result, jira_enabled, hash_seed)
  /\ pc = "format_comment"
  /\ task = [r \in ReviewerSet |-> "done"]
  /\ started = (IF IsSome(state.jira_tickets)
                  THEN SubSeq(EscalatePath, 1, 4) ELSE SubSeq(SkipPath, 1, 3))
  /\ completed = started
  /\ raised = "none"
  /\ published = 0
  /\ comment = None
  /\ handed = (IF IsSome(state.jira_tickets) THEN state.final_report ELSE None)

FormatComment ==
  /\ pc = "format_comment"
  /\ comment' = Some(format_github_comment(state, TheVal(state.final_report)))
  /\ pc' = "formatted"
  /\ UNCHANGED <<jira_enabled, hash_seed, published, handed, state, task, result, started, completed, raised>>

NextComment == FormatComment

SpecComment == InitComment /\ [][NextComment]_vars

\* ------------------------------------------- the report builder alone
\* a reviewer's dict is not validated: the severity of a finding may be a
\* text that is none of the four levels, or be missing ("None" stands for
\* what i.get("severity") gives then)
OtherSeverities == {"INFO", "None"}

LooseFindingSeqs(n) ==
  UNION {{[i \in 1..k |-> [severity |-> f[i], line |-> i,
                            message |-> "m" \o ToString(i)]] :
            f \in [1..k -> Severities \cup OtherSeverities]} : k \in 0..n}

\* aggregator applied to a run whose style and architecture reviewers have
\* returned such findings
InitReport ==
  /\ jira_enabled = FALSE
  /\ hash_seed = 0
  /\ \E sty \in LooseFindingSeqs(MaxIssues + 1),
        arc \in LooseFindingSeqs(MaxIssues + 1) :
       /\ result = [PriorClean EXCEPT
                      !["style"] = Some([issues |-> sty, score |-> 8,
                                         flags |-> {}]),
                      !["arch"] = Some([issues |-> arc, score |-> 8,
                                        flags |-> {}])]
       /\ state = SupervisorUpdate(
                    ParallelReviewUpdate(InitialState(Payload), result))
  /\ pc = "aggregator"
  /\ task = [r \in ReviewerSet |-> "done"]
  /\ started = <<"parallel_review", "supervisor">>
  /\ completed = started
  /\ raised = "none"
  /\ published = 0
  /\ comment = None
  /\ handed = None

NextReport ==
  \/ Aggregator
  \/ PostComment

SpecReport == InitReport /\ [][NextReport]_vars

\* ---------------------------------------------------------------- C1
\* C1: the nodes of a run are entered in the order of the static graph:
\* parallel_review, supervisor, jira_node only on the escalate branch,
\* aggregator, post_comment.  A node is entered only when every node entered
\* before it has completed, no node is entered twice, and no node off the
\* taken path is entered.
C1_NodeOrder ==
  /\ NoRepeat(started)
  /\ IsPrefix(completed, started)
  /\ Len(started) <= Len(completed) + 1
  /\ IF SupervisorDone
       THEN IsPrefix(started, IF Escalating THEN EscalatePath ELSE SkipPath)
       ELSE IsPrefix(started, <<"parallel_review", "supervisor">>)
  /\ pc = "END" =>
       /\ started = completed
       /\ started = IF Escalating THEN EscalatePath ELSE SkipPath

\* a run on the escalate branch has entered all five nodes
C1_Witness ==
  /\ started = EscalatePath
  /\ completed = <<"parallel_review", "supervisor", "jira_node", "aggregator">>

\* ---------------------------------------------------------------- C2
\* C2: the ticket node runs if and only if the derived severity is CRITICAL
\* or HIGH; on MEDIUM and LOW the supervisor routes to aggregator and no
\* ticket is ever requested.
C2_EscalateIff ==
  /\ ~SupervisorDone => pc # "jira_node" /\ "jira_node" \notin Range(started)
  /\ SupervisorDone =>
       ((pc = "jira_node" \/ "jira_node" \in Range(started)) <=> Escalating)
  /\ ~Escalating => state.jira_tickets = None

\* the ticket node has completed in a run of severity HIGH
C2_Witness ==
  /\ "jira_node" \in Range(completed)
  /\ state.severity_level = "HIGH"

\* ---------------------------------------------------------------- C3
\* C3: for a security outcome with a risk score in 0..10 the severity
\* computed at fan-in is CRITICAL if has_critical is set, else HIGH from
\* score 7, else MEDIUM from score 4, else LOW.
C3_SeverityRule ==
  FanInDone /\ RawScore(state.security_review) \in 0..MaxScore =>
    LET hc == Flag(state.security_review, "has_critical")
        rs == RawScore(state.security_review)
        sv == state.severity_level
    IN  /\ sv = "CRITICAL" <=> hc
        /\ sv = "HIGH"     <=> ~hc /\ rs \in 7..MaxScore
        /\ sv = "MEDIUM"   <=> ~hc /\ rs \in 4..6
        /\ sv = "LOW"      <=> ~hc /\ rs \in 0..3

\* the flag wins over the lowest score
C3_Witness ==
  /\ FanInDone
  /\ Flag(state.security_review, "has_critical")
  /\ RawScore(state.security_review) = 0
  /\ state.severity_level = "CRITICAL"

\* ---------------------------------------------------------------- C4
\* C4: the derived severity is a function of the security outcome alone:
\* replacing the style, performance and architecture outcomes by any others
\* (other findings, scores and flags) derives the severity this run derived,
\* so two runs with equal security outcomes derive equal severities and take
\* the same route.
OtherOutcomes ==
  { [issues |-> <<>>, score |-> NoScore, flags |-> {}],
    [issues |-> <<>>, score |-> 10, flags |-> {"approved"}],
    [issues |-> <<[severity |-> "CRITICAL", line |-> 1, message |-> "m1"]>>,
     score |-> 0, flags |-> {"has_critical"}] }

C4_SecurityOnly ==
  FanInDone =>
    \A o1, o2, o3 \in OtherOutcomes :
      /\ DeriveSeverity(Some(o1), state.security_review, Some(o2), Some(o3))
           = state.severity_level
      /\ SupervisorDone =>
           state.next_action = Some(NextActionOf(
             DeriveSeverity(Some(o1), state.security_review,
                            Some(o2), Some(o3))))

\* a run stays LOW although a non-security reviewer reports a CRITICAL finding
C4_Witness ==
  /\ SupervisorDone
  /\ state.severity_level = "LOW"
  /\ \E r \in ReviewerSet \ {"security"} :
       \E k \in 1..Len(Issues(Review(state, r))) :
         Issues(Review(state, r))[k].severity = "CRITICAL"

\* ---------------------------------------------------------------- C5
\* C5: the report is approved if and only if no finding of any reviewer is
\* CRITICAL or HIGH, whatever the reviewers' own approved flags are.
C5_ApprovedIff ==
  HasReport =>
    (Report.approved <=>
       \A r \in ReviewerSet :
         \A k \in 1..Len(Issues(Review(state, r))) :
           Issues(Review(state, r))[k].severity \notin {"CRITICAL", "HIGH"})

\* a report is not approved although every reviewer approved
C5_Witness ==
  /\ HasReport
  /\ ~Report.approved
  /\ \A r \in ReviewerSet : Flag(Review(state, r), "approved")

\* ---------------------------------------------------------------- C6
\* C6 as stated: with no findings at all the final report is approved and
\* its severity is LOW.
C6_EmptyFindingsLow ==
  HasReport /\ NoFindings => Report.approved /\ Report.severity = "LOW"

\* C6 amended: with no findings at all the final report is approved, and its
\* severity is LOW if and only if the security outcome carries no
\* has_critical flag and its risk score (0 when missing) is below 4.
C6_EmptyFindings ==
  HasReport /\ NoFindings =>
    /\ Report.approved
    /\ Report.severity = "LOW" <=>
         /\ ~Flag(state.security_review, "has_critical")
         /\ ScoreOr0(state.security_review) < 4

\* an approved report without findings whose severity is not LOW
C6_Witness ==
  /\ HasReport
  /\ NoFindings
  /\ Report.approved
  /\ Report.severity = "HIGH"

\* ---------------------------------------------------------------- C7
\* C7: the aggregator step changes final_report and appends one log entry
\* and changes nothing else of the RunState; the report it stores is the
\* report of the state it read, and building the report again from the
\* state it leaves yields the same report.
C7_AggregatorStep ==
  pc = "aggregator" /\ pc' # pc =>
    /\ [state' EXCEPT !.final_report = state.final_report,
                      !.messages = state.messages] = state
    /\ Len(state'.messages) = Len(state.messages) + 1
    /\ IsPrefix(state.messages, state'.messages)
    /\ state'.final_report = Some(build_report(state))
    /\ build_report(state') = TheVal(state'.final_report)

C7_AggregatorPure == [][C7_AggregatorStep]_vars

\* the aggregator has run on a state that holds findings and tickets
C7_Witness ==
  /\ "aggregator" \in Range(completed)
  /\ HasReport
  /\ Report.summary.critical > 0
  /\ IsSome(state.jira_tickets)

\* ---------------------------------------------------------------- C8
\* C8: when exactly one of the four reviewer calls raises and the other
\* three return, the run does not end at parallel_review: it goes on to the
\* aggregator with the three outcomes and an unavailable marker.
C8_FanOutIsolation ==
  /\ Cardinality({r \in ReviewerSet : task[r] = "failed"}) = 1
  /\ Cardinality({r \in ReviewerSet : task[r] = "done"}) = 3
  => raised # "parallel_review"

\* ---------------------------------------------------------------- C9
\* C9: the reviewer slots of the RunState are written together: either none
\* of the four is populated or all four are, and whenever supervisor,
\* jira_node, aggregator or post_comment is about to read the state all four
\* reviewer tasks have returned and each slot holds that task's outcome.
Populated == {r \in ReviewerSet : IsSome(Review(state, r))}

C9_NoPartialRead ==
  /\ Cardinality(Populated) \in {0, 4}
  /\ pc \in {"supervisor", "jira_node", "aggregator", "post_comment"} =>
       \A r \in ReviewerSet :
         /\ task[r] = "done"
         /\ IsSome(result[r])
         /\ Review(state, r) = result[r]

\* the aggregator is about to read a fully populated state
C9_Witness ==
  /\ pc = "aggregator"
  /\ Populated = ReviewerSet

\* --------------------------------------------------------------- C10
\* C10: an exception raised by the ticket step never ends the run.
C10_EscalationNotFatal ==
  ~(pc = "error" /\ raised = "jira_node")

\* --------------------------------------------------------------- C11
\* the number of log entries the nodes of a sequence write when they
\* complete: parallel_review five, every other node one
EntriesWritten(nodes) ==
  (IF "parallel_review" \in Range(nodes) THEN 5 ELSE 0)
    + Cardinality(Range(nodes) \ {"parallel_review"})

\* C11: when a node's call raises, the failure is recorded in the run's
\* message log: a run that has ended with an error holds a log entry beyond
\* the entries of the nodes that completed.
C11_FailureRecorded ==
  pc = "error" => Len(state.messages) > EntriesWritten(completed)

\* --------------------------------------------------------------- C12
\* C12: when a node's call raises, the run terminates at that node: the step
\* that raises ends the run without a state update, and from then on no node
\* is entered or completed, the RunState keeps its value, no ticket list and
\* no report is stored and no comment is published.
C12_Step ==
  /\ raised = "none" /\ raised' # "none" =>
       /\ pc' = "error"
       /\ state' = state
       /\ completed' = completed
       /\ published' = published
  /\ raised # "none" =>
       /\ pc = "error"
       /\ UNCHANGED <<pc, state, started, completed, raised, published>>
C12_TerminatesAtFailure == [][C12_Step]_vars

\* the ticket node raised: the path ends there, without tickets or report
C12_Witness ==
  /\ pc = "error"
  /\ raised = "jira_node"
  /\ started = <<"parallel_review", "supervisor", "jira_node">>
  /\ state.jira_tickets = None
  /\ ~HasReport

\* --------------------------------------------------------------- C13
\* C13: when post_comment fails, the failure appears in the message log, the
\* report produced by aggregator is retained in the result of the run, and
\* the run counts as complete.
C13_CommentFailureKeepsReport ==
  raised = "post_comment" =>
    /\ IsSome(ProcessPrReturn)
    /\ IsSome(TheVal(ProcessPrReturn).final_report)
    /\ Len(TheVal(ProcessPrReturn).messages) > EntriesWritten(completed)

\* --------------------------------------------------------------- C14
\* C14: post_comment is entered, and a comment published, only when the run
\* holds a report produced by its aggregator; a run that failed before
\* aggregator completed stores no report, never enters post_comment and
\* never calls post_pr_comment.
C14_CommentNeedsReport ==
  /\ pc = "post_comment" \/ "post_comment" \in Range(started) =>
       HasReport /\ "aggregator" \in Range(completed)
  /\ published > 0 => HasReport
  /\ raised # "none" /\ "aggregator" \notin Range(completed) =>
       /\ ~HasReport
       /\ "post_comment" \notin Range(started)
       /\ published = 0

\* all four reviewer calls have raised
C14_Witness ==
  /\ pc = "error"
  /\ raised = "parallel_review"
  /\ \A r \in ReviewerSet : task[r] = "failed"

\* --------------------------------------------------------------- C15
\* C15: post_pr_comment is called at most once in a run, and exactly once
\* in every ended run in which no reviewer call and no ticket call raised.
C15_PublishedOnce ==
  /\ published <= 1
  /\ pc \in {"END", "error"} /\ raised \notin {"parallel_review", "jira_node"}
       => published = 1

C17_RunIsolation ==
  pc # "idle" =>
    /\ Len(state.messages) = EntriesWritten(completed)
    /\ IsSome(state.arch_review) => FanInDone
    /\ IsSome(state.next_action) => SupervisorDone
    /\ IsSome(state.jira_tickets) => "jira_node" \in Range(completed)

\* --------------------------------------------------------------- C18
\* C18: a reviewer slot that holds an outcome keeps it: no later step of the
\* run (supervisor, jira_node, aggregator, post_comment) changes
\* style_review, security_review, perf_review or arch_review.
C18_Step ==
  \A r \in ReviewerSet :
    IsSome(Review(state, r)) => Review(state', r) = Review(state, r)
C18_SlotsWriteOnce == [][C18_Step]_vars

\* all four slots are filled and every node of the escalate path has run
C18_Witness ==
  /\ Populated = ReviewerSet
  /\ started = EscalatePath
  /\ pc = "error"
  /\ \E r \in ReviewerSet : Issues(Review(state, r)) # <<>>

\* --------------------------------------------------------------- C19
\* C19: the message log is append-only: every step leaves the log it found
\* as a prefix of the log it leaves, and every step in which a node
\* completes makes the log longer.
C19_Step ==
  /\ IsPrefix(state.messages, state'.messages)
  /\ Len(completed') > Len(completed) =>
       Len(state'.messages) > Len(state.messages)
C19_AppendOnly == [][C19_Step]_vars

\* the log holds the entries of an earlier run of the thread followed by the
\* entries of the four nodes this run has completed
C19_Witness ==
  /\ completed = <<"parallel_review", "supervisor", "jira_node", "aggregator">>
  /\ Len(state.messages) > EntriesWritten(completed)

\* --------------------------------------------------------------- C20
\* the findings of severity HIGH or CRITICAL in the four reviewers' lists
HighPlusFindings ==
  {<<r, k>> \in ReviewerSet \X (1..(MaxIssues + 1)) :
     /\ k <= Len(Issues(Review(state, r)))
     /\ Issues(Review(state, r))[k].severity \in {"HIGH", "CRITICAL"}}

TicketCount ==
  IF IsSome(state.jira_tickets) THEN Len(TheVal(state.jira_tickets)) ELSE 0

\* C21 as stated: in a run that has produced its report the number of
\* tickets is the number of HIGH or CRITICAL findings across the reviewers.
C21_TicketsEqualHighPlus ==
  "aggregator" \in Range(completed) =>
    TicketCount = Cardinality(HighPlusFindings)

\* C21: in a run that has produced its report the number of tickets is the
\* number of HIGH or CRITICAL findings across the reviewers when the run's
\* severity is HIGH or CRITICAL, and zero when the severity is MEDIUM or
\* LOW, whatever the findings are.
C21_TicketsFollowRoute ==
  "aggregator" \in Range(completed) =>
    TicketCount = IF Escalating THEN Cardinality(HighPlusFindings) ELSE 0

\* a HIGH or CRITICAL finding in a run that was not escalated: no ticket
C21_Witness ==
  /\ "aggregator" \in Range(completed)
  /\ ~Escalating
  /\ HighPlusFindings # {}
  /\ TicketCount = 0

\* --------------------------------------------------------------- C22
\* C22: the request built for a CRITICAL finding has priority Highest, the
\* request built for a HIGH finding has priority High, and the labels of a
\* request hold the finding's severity (in lower case, as the code writes
\* it).
C22_PriorityAndLabels ==
  "jira_node" \in Range(completed) =>
    \A f \in HighPlusFindings :
      LET issue   == Issues(Review(state, f[1]))[f[2]]
          request == TicketRequest(issue)
      IN  /\ issue.severity = "CRITICAL" =>
               /\ request.priority = "Highest"
               /\ "critical" \in Range(request.labels)
          /\ issue.severity = "HIGH" =>
               /\ request.priority = "High"
               /\ "high" \in Range(request.labels)

\* the ticket node has built the request of a CRITICAL finding
C22_Witness ==
  /\ "jira_node" \in Range(completed)
  /\ \E f \in HighPlusFindings :
       Issues(Review(state, f[1]))[f[2]].severity = "CRITICAL"

\* --------------------------------------------------------------- C23
\* C23: with the ticket client unconfigured, an ended run on the escalate
\* branch whose reviewer calls returned holds simulated tickets, has entered
\* post_comment and has published its comment.
C23_SimulatedThenPublished ==
  ~jira_enabled /\ pc \in {"END", "error"} /\ FanInDone /\ Escalating =>
    /\ IsSome(state.jira_tickets)
    /\ \A k \in 1..TicketCount : TheVal(state.jira_tickets)[k].status = "simulated"
    /\ "post_comment" \in Range(started)
    /\ published = 1
    /\ pc = "END"

\* --------------------------------------------------------------- C24
\* C24: simulated ticket keys and urls are the same in every process: the
\* tickets this run holds are the tickets any other process (any other hash
\* seed) builds for the same findings.
C24_KeysDeterministic ==
  "jira_node" \in Range(completed) =>
    \A seed \in HashSeeds :
      create_tickets_from_review(seed, build_report(state))
        = TheVal(state.jira_tickets)

\* --------------------------------------------------------------- C25
\* C25: a security outcome without a risk score and without the CRITICAL
\* flag never yields severity LOW.
C25_AbsenceNotLow ==
  /\ FanInDone
  /\ RawScore(state.security_review) = NoScore
  /\ ~Flag(state.security_review, "has_critical")
  => state.severity_level # "LOW"

\* --------------------------------------------------------------- C26
\* the run's ticket node was entered
Escalated == "jira_node" \in Range(started)

\* C26: routing and approval are computed independently: in a run that has
\* produced its report, escalation follows the security score and flag and
\* approval follows the findings.  With no CRITICAL flag, a security score
\* of 5 or 8 and a performance list that is empty or holds one HIGH finding
\* give all four combinations; score 5 with the HIGH performance finding
\* gives severity MEDIUM, no escalation and approved = false.
C26_RoutingApprovalIndependent ==
  "aggregator" \in Range(completed) =>
    /\ Escalated <=> Escalating
    /\ Report.approved <=> HighPlusFindings = {}
    /\ \A sc \in {5, 8}, n \in {0, 1} :
         /\ RawScore(state.security_review) = sc
         /\ ~Flag(state.security_review, "has_critical")
         /\ HighPlusFindings = {<<"perf", k>> : k \in 1..n}
         => /\ state.severity_level = (IF sc = 5 THEN "MEDIUM" ELSE "HIGH")
            /\ Escalated <=> sc = 8
            /\ Report.approved <=> n = 0

\* Scenario C: score 5, no flag, one HIGH performance finding
C26_Witness ==
  /\ "aggregator" \in Range(completed)
  /\ RawScore(state.security_review) = 5
  /\ ~Flag(state.security_review, "has_critical")
  /\ HighPlusFindings = {<<"perf", 1>>}
  /\ Issues(state.perf_review)[1].severity = "HIGH"
  /\ state.severity_level = "MEDIUM"
  /\ ~Escalated
  /\ ~Report.approved

\* the three other combinations
C26_EscalatedNotApproved ==
  "aggregator" \in Range(completed) /\ Escalated /\ ~Report.approved
C26_EscalatedApproved ==
  "aggregator" \in Range(completed) /\ Escalated /\ Report.approved
C26_SkippedApproved ==
  "aggregator" \in Range(completed) /\ ~Escalated /\ Report.approved

\* --------------------------------------------------------------- C27
\* C27: a run started again on a thread whose checkpoint shows
\* parallel_review completed resumes after it: the start does not enter
\* parallel_review again.
C27_Step ==
  pc = "idle" /\ IsSome(state.arch_review) => pc' # "parallel_review"
C27_ResumesFromCheckpoint == [][C27_Step]_vars

\* --------------------------------------------------------------- C28
\* C28: a run cancelled while reviewer calls are in flight has none of them
\* left running, is recorded as failed (its log holds an entry beyond those
\* of the nodes that completed), and holds no report.
C28_CancelRecorded ==
  pc = "cancelled" =>
    /\ \A r \in ReviewerSet : task[r] # "running"
    /\ Len(state.messages) > EntriesWritten(completed)
    /\ ~HasReport
    /\ published = 0

\* --------------------------------------------------------------- C29
\* the findings of a report in the order the comment lists them
Listing(report) ==
  report.security_issues \o report.perf_issues
    \o report.style_issues \o report.arch_issues
ItemsOf(c, kind) == SelectSeq(c, LAMBDA part : part.kind = kind)
TitlesOf(c, kind) == Len(ItemsOf(c, kind))

\* C29: the comment has one CRITICAL item for every CRITICAL finding of the
\* report, in listing order; its HIGH items are the first five HIGH findings
\* in listing order (all of them when there are fewer); a block's title is
\* present exactly when the block has an item; the last part is the
\* attribution line.
C29_CommentBlocks ==
  IsSome(comment) =>
    LET c        == TheVal(comment)
        critical == WithSeverity(Listing(Report), "CRITICAL")
        high     == WithSeverity(Listing(Report), "HIGH")
        shown    == IF Len(high) < 5 THEN Len(high) ELSE 5
        citems   == ItemsOf(c, "critical_item")
        hitems   == ItemsOf(c, "high_item")
    IN  /\ Len(citems) = Len(critical)
        /\ \A k \in 1..Len(critical) :
             citems[k].line = critical[k].line
               /\ citems[k].text = critical[k].message
        /\ Len(hitems) = shown
        /\ \A k \in 1..shown :
             hitems[k].line = high[k].line /\ hitems[k].text = high[k].message
        /\ TitlesOf(c, "critical_title") = (IF critical = <<>> THEN 0 ELSE 1)
        /\ TitlesOf(c, "high_title") = (IF high = <<>> THEN 0 ELSE 1)
        /\ c[Len(c)].kind = "attribution"
        /\ TitlesOf(c, "attribution") = 1

\* six HIGH findings, five of them listed, and no CRITICAL block
C29_Witness ==
  /\ IsSome(comment)
  /\ Len(WithSeverity(Listing(Report), "HIGH")) = 6
  /\ Len(ItemsOf(TheVal(comment), "high_item")) = 5
  /\ TitlesOf(TheVal(comment), "critical_title") = 0

\* --------------------------------------------------------------- C30
\* C30: the supervisor step changes next_action and appends one log entry
\* and nothing else (the reviewer outcomes, severity_level, final_report and
\* jira_tickets keep their values); the routing function changes no field
\* and names jira_node or aggregator.
C30_Step ==
  "supervisor" \notin Range(completed) /\ "supervisor" \in Range(completed') =>
    /\ state' = [state EXCEPT !.next_action = state'.next_action,
                              !.messages = state'.messages]
    /\ IsSome(state'.next_action)
    /\ IsPrefix(state.messages, state'.messages)
    /\ Len(state'.messages) = Len(state.messages) + 1
    /\ pc' = route_after_supervisor(state')
    /\ pc' \in {"jira_node", "aggregator"}
C30_SupervisorFrame == [][C30_Step]_vars

\* the supervisor has run over reviewer outcomes that hold a finding
C30_Witness ==
  /\ SupervisorDone
  /\ ~NoFindings
  /\ pc \in {"jira_node", "aggregator"}

\* --------------------------------------------------------------- C31
\* the findings of severity sev in the four reviewers' lists
FindingsOf(sev) ==
  {<<r, k>> \in ReviewerSet \X (1..(MaxIssues + 1)) :
     /\ k <= Len(Issues(Review(state, r)))
     /\ Issues(Review(state, r))[k].severity = sev}

C32_Terminates ==
  /\ [] NoRepeat(started)
  /\ (pc = "parallel_review") ~> (pc \in {"END", "error"})

\* a run has ended after entering every node of the escalate path
C32_Witness ==
  /\ pc \in {"END", "error"}
  /\ started = EscalatePath
  /\ \A r \in ReviewerSet : task[r] = "done"

\* --------------------------------------------------------------- C33
\* C33: the report jira_node hands to create_tickets_from_review is the
\* report aggregator stores later in the run, and the tickets the run holds
\* are the tickets of that stored report.
C33_SameReport ==
  IsSome(handed) /\ HasReport =>
    /\ TheVal(handed) = Report
    /\ state.jira_tickets
         = Some(create_tickets_from_review(hash_seed, Report))

\* both reports exist in a run with a ticketed finding
C33_Witness ==
  /\ IsSome(handed)
  /\ HasReport
  /\ TicketCount = 1
  /\ Report.summary.total_issues = 1

\* --------------------------------------------------------------- C34
\* C34: in every report critical + high + medium + low = total_issues, also
\* over findings whose severity is missing or none of the four levels.
C34_CountsAddUp ==
  HasReport =>
    Report.summary.critical + Report.summary.high + Report.summary.medium
      + Report.summary.low = Report.summary.total_issues

\* --------------------------------------------------------------- C35
\* the entries the completed nodes of the run have written, read off the
\* state
Entries(node) ==
  CASE node = "parallel_review" ->
         << "Style     : " \o Fmt(RawScore(state.style_review)) \o "/10",
            "Security  : " \o Fmt(RawScore(state.security_review))
              \o "/10 risk",
            "Perf      : " \o Fmt(RawScore(state.perf_review)) \o "/10",
            "Arch      : " \o Fmt(RawScore(state.arch_review)) \o "/10",
            "Severity  : " \o state.severity_level >>
    [] node = "supervisor" ->
         <<"Supervisor decision: " \o TheVal(state.next_action)>>
    [] node = "jira_node" ->
         <<"Created " \o ToString(TicketCount) \o " JIRA tickets">>
    [] node = "aggregator" ->
         <<"Final: " \o ToString(Report.summary.total_issues) \o " issues">>
    [] node = "post_comment" -> <<"GitHub comment posted">>
EntriesIf(node) ==
  IF node \in Range(completed) THEN Entries(node) ELSE <<>>

\* C35: the log of a fresh run is, in this order, the five fan-in entries
\* (style, security, performance, architecture, severity), the supervisor
\* decision, the ticket count exactly when jira_node completed, the final
\* issue count, and the comment-posted entry, each present once its node has
\* completed; the comment-posted entry is there only after a publication.
C35_LogOrder ==
  /\ state.messages =
       EntriesIf("parallel_review") \o EntriesIf("supervisor")
         \o EntriesIf("jira_node") \o EntriesIf("aggregator")
         \o EntriesIf("post_comment")
  /\ "post_comment" \in Range(completed) => published = 1

\* the log of a run that went through jira_node and aggregator
C35_Witness ==
  /\ completed = <<"parallel_review", "supervisor", "jira_node", "aggregator">>
  /\ Len(state.messages) = 8
  /\ state.messages[7] = "Created 1 JIRA tickets"
  /\ state.messages[8] = "Final: 1 issues"
  /\ pc = "error"

TypeOK ==
  /\ pc \in {"idle", "parallel_review", "supervisor", "jira_node",
             "aggregator", "post_comment", "END", "error", "cancelled",
             "format_comment", "formatted"}
  /\ raised \in {"none", "parallel_review", "jira_node", "post_comment"}
====
